---- MODULE Spec2Model ----
(***************************************************************************)
(* Order-management persistence layer of adv_alg_05.py: the relational     *)
(* schema (Supplier, Product, Order, OrderItem) with its constraints and   *)
(* cascades, the scoped session of DatabaseConnection.get_session, the     *)
(* transfer records (OrderODT / OrderItemODT) and the demo flow of the     *)
(* __main__ block.                                                         *)
(***************************************************************************)
EXTENDS Integers, Sequences, FiniteSets, TLC

VARIABLES
    db,         \* the committed store: the four tables
    tx,         \* the store as seen inside the session's open transaction
    pending,    \* objects added to / marked deleted in the session, not flushed
    pc,         \* position inside get_session: idle, body, commit, except, finally, done
    exc,        \* the exception in flight ("none" when there is none)
    bodyExc,    \* the exception that left the body of the scope
    raised,     \* what the caller of the scope saw once it ended
    calls,      \* commit / rollback / close calls made by get_session in this scope
    dbAtEnter,  \* the committed store when the current scope was entered
    failedOp,   \* the pending operation whose flush raised in this scope
    flushed,    \* the operations of the last successful commit of this scope
    demo        \* the __main__ block: its position, locals and run counters

vars == <<db, tx, pending, pc, exc, bodyExc, raised, calls, dbAtEnter, failedOp, flushed, demo>>

---------------------------------------------------------------------------
(* Bounds of the model *)

\* Supplier rows stored at once
MaxSuppliers == 2
\* Product, Order and OrderItem rows stored at once, per table
MaxRows == 1
\* operations held unflushed in one session
MaxPending == 2
\* runs of the demo program against the same store
MaxRuns == 2

---------------------------------------------------------------------------
(* Values *)

None == 0

SupplierNames == {"Acme", "Bolt"}
ProductNames == {"Widget"}
Prices == {10}
Quantities == {1, 2}

\* the sample rows of the __main__ block (the Cyrillic names transliterated)
DemoSupplierName == "TechSupplier Inc."
DemoProduct1Name == "Noutbuk igrovoy"
DemoProduct2Name == "Smartfon"
DemoProduct1Price == 85000
DemoProduct2Price == 65000
DemoCustomer == "Petr Petrov"

\* BaseTable.__tablename__: the class name lowercased
Tables == {"supplier", "product", "order", "orderitem"}

EmptyStore ==
    [supplier |-> {}, product |-> {}, order |-> {}, orderitem |-> {}]

Ids(st, t) == {r.id : r \in st[t]}

\* a pending unit-of-work entry; unused fields are None / "" / <<>>
Op(kind, id, name, price, ref, ref2, qty, items, total) ==
    [kind |-> kind, id |-> id, name |-> name, price |-> price, ref |-> ref,
     ref2 |-> ref2, qty |-> qty, items |-> items, total |-> total]

AddSupplier(name) == Op("add_supplier", None, name, 0, None, None, 0, <<>>, 0)
AddProduct(name, price, sid) == Op("add_product", None, name, price, sid, None, 0, <<>>, 0)
AddOrder(customer, items, total) == Op("add_order", None, customer, 0, None, None, 0, items, total)
AddOrderItem(oid, pid, qty, price) == Op("add_orderitem", None, "", price, oid, pid, qty, <<>>, 0)
DeleteSupplier(id) == Op("delete_supplier", id, "", 0, None, None, 0, <<>>, 0)
DeleteProduct(id) == Op("delete_product", id, "", 0, None, None, 0, <<>>, 0)
DeleteOrder(id) == Op("delete_order", id, "", 0, None, None, 0, <<>>, 0)
DeleteOrderItem(id) == Op("delete_orderitem", id, "", 0, None, None, 0, <<>>, 0)
RenameSupplier(id, name) == Op("rename_supplier", id, name, 0, None, None, 0, <<>>, 0)
MoveProduct(id, sid) == Op("move_product", id, "", 0, sid, None, 0, <<>>, 0)

---------------------------------------------------------------------------
(* The schema: what a flush does to the tables, constraint by constraint *)

Ok(st) == [ok |-> TRUE, st |-> st, err |-> "none"]
Fail(st, err) == [ok |-> FALSE, st |-> st, err |-> err]

\* the id a new row of table t gets: one no stored row of the table has
NextId(st, t) ==
    CHOOSE i \in 1..(Cardinality(st[t]) + 1) :
        /\ i \notin Ids(st, t)
        /\ \A j \in 1..(i - 1) : j \in Ids(st, t)

\* the schema without unique=True on Supplier.name
SupplierNameFreeUnchecked(st, name, self) == TRUE

\* Supplier.name: nullable=False, unique=True
SupplierNameFree(st, name, self) ==
    \A s \in st.supplier : s.id # self => s.name # name

InsertSupplier(st, name) ==
    IF ~SupplierNameFree(st, name, None)
    THEN Fail(st, "IntegrityError")
    ELSE Ok([st EXCEPT
             !.supplier = @ \cup {[id |-> NextId(st, "supplier"), name |-> name]}])

\* the schema without the foreign key on Product.supplier_id
InsertProductUnchecked(st, name, price, sid) ==
    Ok([st EXCEPT
        !.product = @ \cup {[id |-> NextId(st, "product"), name |-> name,
                             price |-> price, supplier_id |-> sid]}])

\* Product.supplier_id: ForeignKey('supplier.id'), nullable=False
InsertProduct(st, name, price, sid) ==
    IF sid \notin Ids(st, "supplier")
    THEN Fail(st, "IntegrityError")
    ELSE Ok([st EXCEPT
             !.product = @ \cup {[id |-> NextId(st, "product"), name |-> name,
                                  price |-> price, supplier_id |-> sid]}])

\* OrderItem.order_id -> order.id, OrderItem.product_id -> product.id, both required
InsertOrderItem(st, oid, pid, qty, price) ==
    IF oid \notin Ids(st, "order") \/ pid \notin Ids(st, "product")
    THEN Fail(st, "IntegrityError")
    ELSE Ok([st EXCEPT
             !.orderitem = @ \cup {[id |-> NextId(st, "orderitem"), order_id |-> oid,
                                    product_id |-> pid, quantity |-> qty,
                                    price |-> price]}])

\* Order.items cascade (save-update): every distinct object of the in-memory
\* collection becomes one row; an object listed twice is still one object
RECURSIVE InsertItems(_, _, _, _)
InsertItems(st, oid, items, i) ==
    IF i > Len(items) THEN Ok(st)
    ELSE IF \E j \in 1..(i - 1) : items[j] = items[i]
         THEN InsertItems(st, oid, items, i + 1)
         ELSE LET r == InsertOrderItem(st, oid, items[i].product_id,
                                       items[i].quantity, items[i].price)
              IN  IF r.ok THEN InsertItems(r.st, oid, items, i + 1) ELSE r

InsertOrder(st, customer, items, total) ==
    LET oid == NextId(st, "order")
        st1 == [st EXCEPT
                !.order = @ \cup {[id |-> oid, customer_name |-> customer,
                                   total_amount |-> total]}]
    IN  InsertItems(st1, oid, items, 1)

ProductsOf(st, sid) == {p \in st.product : p.supplier_id = sid}
ItemsOfOrder(st, oid) == {i \in st.orderitem : i.order_id = oid}
ItemsOfProduct(st, pid) == {i \in st.orderitem : i.product_id = pid}

\* the schema with a delete cascade from Product to its OrderItems
RemoveProductCascade(st, pid) ==
    Ok([st EXCEPT !.product = {p \in @ : p.id # pid},
                  !.orderitem = @ \ ItemsOfProduct(st, pid)])

\* Product.order_items has no cascade and OrderItem.product_id has no ondelete:
\* a Product that an OrderItem references cannot be deleted
RemoveProduct(st, pid) ==
    IF ItemsOfProduct(st, pid) # {}
    THEN Fail(st, "IntegrityError")
    ELSE Ok([st EXCEPT !.product = {p \in @ : p.id # pid}])

\* the schema without the cascade on Supplier.products
RemoveSupplierOnly(st, sid) ==
    IF \E p \in ProductsOf(st, sid) : ~RemoveProduct(st, p.id).ok
    THEN Fail(st, "IntegrityError")
    ELSE Ok([st EXCEPT !.supplier = {s \in @ : s.id # sid}])

\* Supplier.products: cascade="all, delete-orphan" (and ondelete="CASCADE")
RemoveSupplier(st, sid) ==
    IF \E p \in ProductsOf(st, sid) : ~RemoveProduct(st, p.id).ok
    THEN Fail(st, "IntegrityError")
    ELSE Ok([st EXCEPT !.supplier = {s \in @ : s.id # sid},
                       !.product = @ \ ProductsOf(st, sid)])

\* Order.items: cascade="all, delete-orphan" (and ondelete="CASCADE")
RemoveOrder(st, oid) ==
    Ok([st EXCEPT !.order = {o \in @ : o.id # oid},
                  !.orderitem = @ \ ItemsOfOrder(st, oid)])

RemoveOrderItem(st, iid) ==
    Ok([st EXCEPT !.orderitem = {i \in @ : i.id # iid}])

UpdateSupplierName(st, sid, name) ==
    IF ~SupplierNameFree(st, name, sid)
    THEN Fail(st, "IntegrityError")
    ELSE Ok([st EXCEPT !.supplier =
                {IF s.id = sid THEN [s EXCEPT !.name = name] ELSE s : s \in @}])

UpdateProductSupplier(st, pid, sid) ==
    IF sid \notin Ids(st, "supplier")
    THEN Fail(st, "IntegrityError")
    ELSE Ok([st EXCEPT !.product =
                {IF p.id = pid THEN [p EXCEPT !.supplier_id = sid] ELSE p : p \in @}])

ApplyOp(st, o) ==
    CASE o.kind = "add_supplier"     -> InsertSupplier(st, o.name)
      [] o.kind = "add_product"      -> InsertProduct(st, o.name, o.price, o.ref)
      [] o.kind = "add_order"        -> InsertOrder(st, o.name, o.items, o.total)
      [] o.kind = "add_orderitem"    -> InsertOrderItem(st, o.ref, o.ref2, o.qty, o.price)
      [] o.kind = "delete_supplier"  -> RemoveSupplier(st, o.id)
      [] o.kind = "delete_product"   -> RemoveProduct(st, o.id)
      [] o.kind = "delete_order"     -> RemoveOrder(st, o.id)
      [] o.kind = "delete_orderitem" -> RemoveOrderItem(st, o.id)
      [] o.kind = "rename_supplier"  -> UpdateSupplierName(st, o.id, o.name)
      [] o.kind = "move_product"     -> UpdateProductSupplier(st, o.id, o.ref)

NoOp == Op("none", None, "", 0, None, None, 0, <<>>, 0)

\* Session.flush: the pending operations in turn; the first constraint
\* violation raises and nothing of the flush stays
RECURSIVE Flush(_, _, _)
Flush(st, ops, i) ==
    IF i > Len(ops) THEN [ok |-> TRUE, st |-> st, err |-> "none", op |-> NoOp]
    ELSE LET r == ApplyOp(st, ops[i])
         IN  IF r.ok THEN Flush(r.st, ops, i + 1)
             ELSE [ok |-> FALSE, st |-> st, err |-> r.err, op |-> ops[i]]

---------------------------------------------------------------------------
(* DatabaseConnection.get_session *)

\* what the body of a scope, or a database call, can raise
BodyErrors == {"BodyError", "KeyboardInterrupt"}
\* `except Exception` catches every exception but the BaseException-only ones
IsException(e) == e \notin {"none", "KeyboardInterrupt", "SystemExit", "GeneratorExit"}

\* session.commit(): flush the pending operations and make them durable;
\* conn = FALSE is a connection lost during the call
Commit(st, ops, conn) ==
    IF ~conn
    THEN [ok |-> FALSE, st |-> st, err |-> "OperationalError", op |-> NoOp]
    ELSE Flush(st, ops, 1)

\* get_session without its except block
HandlerNoExcept(e) == "finally"

\* where control goes when e leaves the try block
Handler(e) == IF IsException(e) THEN "except" ELSE "finally"

\* get_session with session.close() after the try statement, not in finally
AfterExceptSkipsClose == "done"

\* where control goes when the except block ends with `raise`
AfterExcept == "finally"

\* the __main__ block is not running
DemoOff ==
    [pc |-> "off", scope |-> 0, started |-> 0, completed |-> 0, lateAborted |-> 0,
     ordered |-> FALSE, supplier |-> None, product1 |-> None, product2 |-> None,
     items |-> <<>>, total |-> 0, odt |-> <<>>]

\* session = self.SessionLocal(); yield session
SessionEnter ==
    /\ pc \in {"idle", "done"}
    /\ pc' = "body"
    /\ tx' = db
    /\ pending' = <<>>
    /\ exc' = "none"
    /\ bodyExc' = "none"
    /\ raised' = "none"
    /\ calls' = <<>>
    /\ dbAtEnter' = db
    /\ failedOp' = NoOp
    /\ flushed' = <<>>
    /\ UNCHANGED db

\* session.add / session.delete / an attribute change inside the body
Stage(o) ==
    /\ pc = "body"
    /\ pending' = Append(pending, o)
    /\ UNCHANGED <<db, tx, pc, exc, bodyExc, raised, calls, dbAtEnter, failedOp, flushed>>

\* a session.commit() written inside the body (as at lines 269, 299, 327)
CommitInBody(conn) ==
    /\ pc = "body"
    /\ LET r == Commit(tx, pending, conn)
       IN  IF r.ok
           THEN /\ db' = r.st
                /\ tx' = r.st
                /\ flushed' = pending
                /\ UNCHANGED <<pc, exc, bodyExc, failedOp>>
           ELSE /\ exc' = r.err
                /\ bodyExc' = r.err
                /\ failedOp' = r.op
                /\ pc' = Handler(r.err)
                /\ UNCHANGED <<db, tx, flushed>>
    /\ pending' = <<>>
    /\ UNCHANGED <<raised, calls, dbAtEnter>>

\* the body raises
RaiseInBody(e) ==
    /\ pc = "body"
    /\ exc' = e
    /\ bodyExc' = e
    /\ pc' = Handler(e)
    /\ UNCHANGED <<db, tx, pending, raised, calls, dbAtEnter, failedOp, flushed>>

\* the body ends normally: control returns after the yield
ReturnFromBody ==
    /\ pc = "body"
    /\ pc' = "commit"
    /\ UNCHANGED <<db, tx, pending, exc, bodyExc, raised, calls, dbAtEnter, failedOp, flushed>>

\* line 61: session.commit()
ExitCommit(conn) ==
    /\ pc = "commit"
    /\ LET r == Commit(tx, pending, conn)
       IN  IF r.ok
           THEN /\ db' = r.st
                /\ tx' = r.st
                /\ flushed' = pending
                /\ calls' = Append(calls, "commit")
                /\ pc' = "finally"
                /\ UNCHANGED <<exc, failedOp>>
           ELSE /\ exc' = r.err
                /\ failedOp' = r.op
                /\ calls' = Append(calls, "commit_failed")
                /\ pc' = Handler(r.err)
                /\ UNCHANGED <<db, tx, flushed>>
    /\ pending' = <<>>
    /\ UNCHANGED <<bodyExc, raised, dbAtEnter>>

\* lines 62-64: except Exception: session.rollback(); raise
ExceptRollback ==
    /\ pc = "except"
    /\ tx' = db
    /\ pending' = <<>>
    /\ calls' = Append(calls, "rollback")
    /\ pc' = AfterExcept
    /\ UNCHANGED <<db, exc, bodyExc, raised, dbAtEnter, failedOp, flushed>>

\* lines 65-66: finally: session.close(); the exception in flight, if any,
\* reaches the caller
FinallyClose ==
    /\ pc = "finally"
    /\ tx' = db
    /\ pending' = <<>>
    /\ calls' = Append(calls, "close")
    /\ raised' = exc
    /\ exc' = "none"
    /\ pc' = "done"
    /\ UNCHANGED <<db, bodyExc, dbAtEnter, failedOp, flushed>>

---------------------------------------------------------------------------
(* Scopes over the Supplier table, statement by statement *)

SupplierIds == 1..MaxSuppliers

CanStage == demo = DemoOff /\ Len(pending) < MaxPending

\* rows the table can still take, the inserts already pending counted
SupplierRoom ==
    Cardinality(tx.supplier)
      + Cardinality({k \in 1..Len(pending) : pending[k].kind = "add_supplier"})
      < MaxSuppliers

Enter ==
    /\ demo = DemoOff
    /\ SessionEnter
    /\ UNCHANGED demo

AddSupplierStep ==
    /\ CanStage /\ SupplierRoom
    /\ \E n \in SupplierNames : Stage(AddSupplier(n))
    /\ UNCHANGED demo

RenameSupplierStep ==
    /\ CanStage
    /\ \E id \in Ids(tx, "supplier"), n \in SupplierNames : Stage(RenameSupplier(id, n))
    /\ UNCHANGED demo

DeleteSupplierStep ==
    /\ CanStage
    /\ \E id \in Ids(tx, "supplier") : Stage(DeleteSupplier(id))
    /\ UNCHANGED demo

BodyCommit ==
    /\ demo = DemoOff /\ pending # <<>>
    /\ \E conn \in BOOLEAN : CommitInBody(conn)
    /\ UNCHANGED demo

BodyRaise ==
    /\ demo = DemoOff
    /\ \E e \in BodyErrors : RaiseInBody(e)
    /\ UNCHANGED demo

BodyReturn ==
    /\ demo = DemoOff
    /\ ReturnFromBody
    /\ UNCHANGED demo

Exit ==
    /\ demo = DemoOff
    /\ \E conn \in BOOLEAN : ExitCommit(conn)
    /\ UNCHANGED demo

Rollback ==
    /\ demo = DemoOff
    /\ ExceptRollback
    /\ UNCHANGED demo

Close ==
    /\ demo = DemoOff
    /\ FinallyClose
    /\ UNCHANGED demo

\* create_tables() on a fresh database: four empty tables, no session open
InitStore ==
    /\ db = EmptyStore
    /\ tx = EmptyStore
    /\ pending = <<>>
    /\ pc = "idle"
    /\ exc = "none"
    /\ bodyExc = "none"
    /\ raised = "none"
    /\ calls = <<>>
    /\ dbAtEnter = EmptyStore
    /\ failedOp = NoOp
    /\ flushed = <<>>

Init ==
    /\ InitStore
    /\ demo = DemoOff

Next ==
    \/ Enter
    \/ AddSupplierStep
    \/ RenameSupplierStep
    \/ DeleteSupplierStep
    \/ BodyCommit
    \/ BodyRaise
    \/ BodyReturn
    \/ Exit
    \/ Rollback
    \/ Close

Spec == Init /\ [][Next]_vars

---------------------------------------------------------------------------
(* Units of work over the whole schema: one get_session scope per step *)

RowIds == 1..MaxRows

\* with db.get_session() as session: <one add, delete or change>
\* run from the entry to the close: commit on the way out, rollback if it raises
UnitOfWork(o, conn) ==
    /\ pc \in {"idle", "done"}
    /\ demo = DemoOff
    /\ LET r == Commit(db, <<o>>, conn)
       IN  /\ db' = IF r.ok THEN r.st ELSE db
           /\ tx' = IF r.ok THEN r.st ELSE db
           /\ raised' = r.err
           /\ failedOp' = r.op
           /\ flushed' = IF r.ok THEN <<o>> ELSE <<>>
           /\ calls' = IF r.ok THEN <<"commit", "close">>
                        ELSE <<"commit_failed", "rollback", "close">>
    /\ dbAtEnter' = db
    /\ pending' = <<>>
    /\ pc' = "done"
    /\ UNCHANGED <<exc, bodyExc, demo>>

Full(t) == Cardinality(db[t]) >= (IF t = "supplier" THEN MaxSuppliers ELSE MaxRows)

InsertSupplierUnit ==
    /\ ~Full("supplier")
    /\ \E n \in SupplierNames, conn \in BOOLEAN : UnitOfWork(AddSupplier(n), conn)

InsertProductUnit ==
    /\ ~Full("product")
    /\ \E n \in ProductNames, p \in Prices, sid \in SupplierIds, conn \in BOOLEAN :
           UnitOfWork(AddProduct(n, p, sid), conn)

InsertOrderUnit ==
    /\ ~Full("order")
    /\ \E conn \in BOOLEAN : UnitOfWork(AddOrder("Jane", <<>>, 0), conn)

InsertOrderItemUnit ==
    /\ ~Full("orderitem")
    /\ \E oid \in RowIds, pid \in RowIds, q \in Quantities, p \in Prices, conn \in BOOLEAN :
           UnitOfWork(AddOrderItem(oid, pid, q, p), conn)

DeleteSupplierUnit ==
    \E id \in Ids(db, "supplier"), conn \in BOOLEAN : UnitOfWork(DeleteSupplier(id), conn)

DeleteProductUnit ==
    \E id \in Ids(db, "product"), conn \in BOOLEAN : UnitOfWork(DeleteProduct(id), conn)

DeleteOrderUnit ==
    \E id \in Ids(db, "order"), conn \in BOOLEAN : UnitOfWork(DeleteOrder(id), conn)

DeleteOrderItemUnit ==
    \E id \in Ids(db, "orderitem"), conn \in BOOLEAN : UnitOfWork(DeleteOrderItem(id), conn)

RenameSupplierUnit ==
    \E id \in Ids(db, "supplier"), n \in SupplierNames, conn \in BOOLEAN :
        UnitOfWork(RenameSupplier(id, n), conn)

MoveProductUnit ==
    \E id \in Ids(db, "product"), sid \in SupplierIds, conn \in BOOLEAN :
        UnitOfWork(MoveProduct(id, sid), conn)

NextStore ==
    \/ InsertSupplierUnit
    \/ InsertProductUnit
    \/ InsertOrderUnit
    \/ InsertOrderItemUnit
    \/ DeleteSupplierUnit
    \/ DeleteProductUnit
    \/ DeleteOrderUnit
    \/ DeleteOrderItemUnit
    \/ RenameSupplierUnit
    \/ MoveProductUnit

SpecStore == Init /\ [][NextStore]_vars

---------------------------------------------------------------------------
(* Order.calculate_total, the relationship collections and the ODT records *)

\* sum(item.price * item.quantity for item in self.items): one term per
\* element of the collection
RECURSIVE SumFrom(_, _)
SumFrom(items, i) ==
    IF i > Len(items) THEN 0
    ELSE items[i].price * items[i].quantity + SumFrom(items, i + 1)

CalculateTotal(items) == SumFrom(items, 1)

\* OrderItem(order=order, product=..., quantity=..., price=...):
\* BaseTable.__init__ sets every keyword with setattr, and setting item.order
\* appends the item to order.items through back_populates
NewOrderItem(orderItems, obj, pid, qty, price) ==
    Append(orderItems, [obj |-> obj, product_id |-> pid, quantity |-> qty, price |-> price])

\* order.items.extend(new): a list append per element; the collection is a
\* list and keeps an object it already holds a second time
ItemsExtend(orderItems, new) == orderItems \o new

\* the rows of a set in id order
RECURSIVE ById(_)
ById(rows) ==
    IF rows = {} THEN <<>>
    ELSE LET first == CHOOSE r \in rows : \A q \in rows : r.id <= q.id
         IN  <<first>> \o ById(rows \ {first})

\* the attributes of a loaded OrderItem instance: its columns and its two
\* relationships (total and product_name exist only as keys of to_dict)
OrderItemObject(st, row) ==
    [id |-> row.id, order_id |-> row.order_id, product_id |-> row.product_id,
     quantity |-> row.quantity, price |-> row.price,
     order |-> row.order_id,
     product |-> CHOOSE p \in st.product : p.id = row.product_id]

\* the attributes of a loaded Order instance; items is loaded from the table
OrderObject(st, row) ==
    [id |-> row.id, customer_name |-> row.customer_name, status |-> "created",
     total_amount |-> row.total_amount,
     items |-> LET rows == ById(ItemsOfOrder(st, row.id))
               IN  [k \in 1..Len(rows) |-> OrderItemObject(st, rows[k])]]

\* from_attributes: an Optional field is read with getattr and is absent
\* (<<>>) when the instance has no such attribute
Attr(obj, f) == IF f \in DOMAIN obj THEN <<obj[f]>> ELSE <<>>

\* OrderItemODT.model_validate(item)
OrderItemODT(obj) ==
    [id |-> Attr(obj, "id"),
     product_id |-> obj.product_id,
     product_name |-> Attr(obj, "product_name"),
     quantity |-> IF "quantity" \in DOMAIN obj THEN obj.quantity ELSE 1,
     price |-> obj.price,
     total |-> Attr(obj, "total")]

\* OrderODT.model_validate(order)
OrderODT(obj) ==
    [id |-> Attr(obj, "id"),
     customer_name |-> obj.customer_name,
     status |-> IF "status" \in DOMAIN obj THEN obj.status ELSE "created",
     total_amount |-> IF "total_amount" \in DOMAIN obj THEN obj.total_amount ELSE 0,
     items |-> IF "items" \in DOMAIN obj
               THEN [k \in 1..Len(obj.items) |-> OrderItemODT(obj.items[k])]
               ELSE <<>>]

---------------------------------------------------------------------------
(* The __main__ block, run after run against the same store *)

FindSupplier(st, name) == {r \in st.supplier : r.name = name}
FindProduct(st, name) == {r \in st.product : r.name = name}

\* the demo without its existence check on the sample products
ProductMissingAlways(found) == TRUE

\* `if not supplier:` / `if not product1:` / `if not product2:`
SupplierMissing(found) == found = {}
ProductMissing(found) == found = {}

\* .first() of a query that found rows: one of them
FirstId(rows) == (CHOOSE r \in rows : \A q \in rows : r.id <= q.id).id

PriceOf(st, pid) == (CHOOSE p \in st.product : p.id = pid).price

DemoAt(p) == demo.pc = p /\ pc = "body"

\* lines 251-255: a run starts and opens the first scope
DemoStart ==
    /\ demo.pc \in {"off", "start"}
    /\ demo.started < MaxRuns
    /\ SessionEnter
    /\ demo' = [demo EXCEPT !.pc = "query_supplier", !.scope = 1, !.started = @ + 1,
                            !.ordered = FALSE, !.supplier = None, !.product1 = None,
                            !.product2 = None, !.items = <<>>, !.total = 0,
                            !.odt = <<>>]

\* lines 257-272: look the sample supplier up, add it when it is missing
DemoQuerySupplier ==
    /\ DemoAt("query_supplier")
    /\ LET found == FindSupplier(tx, DemoSupplierName)
       IN  IF SupplierMissing(found)
           THEN /\ Stage(AddSupplier(DemoSupplierName))
                /\ demo' = [demo EXCEPT !.pc = "commit_supplier"]
           ELSE /\ demo' = [demo EXCEPT !.pc = "query_product1",
                                        !.supplier = FirstId(found)]
                /\ UNCHANGED <<db, tx, pending, pc, exc, bodyExc, raised, calls,
                               dbAtEnter, failedOp, flushed>>

\* line 269: session.commit(); supplier.id is then the stored row's id
DemoCommitSupplier ==
    /\ DemoAt("commit_supplier")
    /\ \E conn \in BOOLEAN : CommitInBody(conn)
    /\ demo' = IF pc' = "body"
               THEN [demo EXCEPT !.pc = "query_product1",
                                 !.supplier = FirstId(FindSupplier(tx', DemoSupplierName))]
               ELSE [demo EXCEPT !.pc = "unwind"]

\* lines 275-285
DemoQueryProduct1 ==
    /\ DemoAt("query_product1")
    /\ LET found == FindProduct(tx, DemoProduct1Name)
       IN  IF ProductMissing(found)
           THEN /\ Stage(AddProduct(DemoProduct1Name, DemoProduct1Price, demo.supplier))
                /\ demo' = [demo EXCEPT !.pc = "query_product2"]
           ELSE /\ demo' = [demo EXCEPT !.pc = "query_product2",
                                        !.product1 = FirstId(found)]
                /\ UNCHANGED <<db, tx, pending, pc, exc, bodyExc, raised, calls,
                               dbAtEnter, failedOp, flushed>>

\* lines 287-297
DemoQueryProduct2 ==
    /\ DemoAt("query_product2")
    /\ LET found == FindProduct(tx, DemoProduct2Name)
       IN  IF ProductMissing(found)
           THEN /\ Stage(AddProduct(DemoProduct2Name, DemoProduct2Price, demo.supplier))
                /\ demo' = [demo EXCEPT !.pc = "commit_products"]
           ELSE /\ demo' = [demo EXCEPT !.pc = "commit_products",
                                        !.product2 = FirstId(found)]
                /\ UNCHANGED <<db, tx, pending, pc, exc, bodyExc, raised, calls,
                               dbAtEnter, failedOp, flushed>>

\* line 299: session.commit(); the new products now have their ids
DemoCommitProducts ==
    /\ DemoAt("commit_products")
    /\ \E conn \in BOOLEAN : CommitInBody(conn)
    /\ demo' = IF pc' = "body"
               THEN [demo EXCEPT !.pc = "new_order",
                                 !.product1 = FirstId(FindProduct(tx', DemoProduct1Name)),
                                 !.product2 = FirstId(FindProduct(tx', DemoProduct2Name))]
               ELSE [demo EXCEPT !.pc = "unwind"]

\* the two objects the demo builds
DemoItems ==
    NewOrderItem(NewOrderItem(<<>>, 1, demo.product1, 1, PriceOf(tx, demo.product1)),
                 2, demo.product2, 2, PriceOf(tx, demo.product2))

\* lines 302-321: order = Order(...); order_item1 = OrderItem(order=order, ...);
\* order_item2 = OrderItem(order=order, ...)
DemoNewOrder ==
    /\ DemoAt("new_order")
    /\ demo' = [demo EXCEPT !.pc = "extend", !.items = DemoItems]
    /\ UNCHANGED <<db, tx, pending, pc, exc, bodyExc, raised, calls, dbAtEnter,
                   failedOp, flushed>>

\* line 323: order.items.extend([order_item1, order_item2])
DemoExtend ==
    /\ DemoAt("extend")
    /\ demo' = [demo EXCEPT !.pc = "calculate_total",
                            !.items = ItemsExtend(demo.items, DemoItems)]
    /\ UNCHANGED <<db, tx, pending, pc, exc, bodyExc, raised, calls, dbAtEnter,
                   failedOp, flushed>>

\* lines 324-326: order.calculate_total(); session.add(order)
DemoCalculateTotal ==
    /\ DemoAt("calculate_total")
    /\ LET total == CalculateTotal(demo.items)
       IN  /\ Stage(AddOrder(DemoCustomer, demo.items, total))
           /\ demo' = [demo EXCEPT !.pc = "commit_order", !.total = total]

\* line 327: session.commit()
DemoCommitOrder ==
    /\ DemoAt("commit_order")
    /\ \E conn \in BOOLEAN : CommitInBody(conn)
    /\ demo' = IF pc' = "body"
               THEN [demo EXCEPT !.pc = "leave", !.ordered = TRUE]
               ELSE [demo EXCEPT !.pc = "unwind"]

\* lines 331-347: the second scope reads and prints every order
DemoListOrders ==
    /\ DemoAt("list_orders")
    /\ demo' = [demo EXCEPT !.pc = "leave"]
    /\ UNCHANGED <<db, tx, pending, pc, exc, bodyExc, raised, calls, dbAtEnter,
                   failedOp, flushed>>

\* lines 350-361: order = session.query(Order).first();
\* order_odt = OrderODT.model_validate(order)
DemoValidate ==
    /\ DemoAt("validate")
    /\ IF tx.order = {}
       THEN demo' = [demo EXCEPT !.pc = "leave"]
       ELSE \E o \in tx.order :
               demo' = [demo EXCEPT !.pc = "leave",
                                    !.odt = <<[order |-> o.id,
                                               record |-> OrderODT(OrderObject(tx, o))]>>]
    /\ UNCHANGED <<db, tx, pending, pc, exc, bodyExc, raised, calls, dbAtEnter,
                   failedOp, flushed>>

\* the body of a scope ends
DemoLeave ==
    /\ DemoAt("leave")
    /\ ReturnFromBody
    /\ demo' = [demo EXCEPT !.pc = "unwind"]

DemoExit ==
    /\ demo.pc = "unwind"
    /\ \E conn \in BOOLEAN : ExitCommit(conn)
    /\ UNCHANGED demo

DemoRollback ==
    /\ demo.pc = "unwind"
    /\ ExceptRollback
    /\ UNCHANGED demo

\* the scope closes: the next scope follows, or the run is complete, or the
\* exception ends the program
DemoClose ==
    /\ demo.pc = "unwind"
    /\ FinallyClose
    /\ demo' = IF exc # "none"
               THEN [demo EXCEPT !.pc = "start",
                                 !.lateAborted = @ + (IF demo.ordered THEN 1 ELSE 0)]
               ELSE IF demo.scope = 3
               THEN [demo EXCEPT !.pc = "start", !.completed = @ + 1]
               ELSE [demo EXCEPT !.pc = "enter", !.scope = @ + 1]

\* lines 331 and 350: the next with db.get_session() as session
DemoEnter ==
    /\ demo.pc = "enter"
    /\ SessionEnter
    /\ demo' = [demo EXCEPT !.pc = IF demo.scope = 2 THEN "list_orders" ELSE "validate"]

NextDemo ==
    \/ DemoStart
    \/ DemoQuerySupplier
    \/ DemoCommitSupplier
    \/ DemoQueryProduct1
    \/ DemoQueryProduct2
    \/ DemoCommitProducts
    \/ DemoNewOrder
    \/ DemoExtend
    \/ DemoCalculateTotal
    \/ DemoCommitOrder
    \/ DemoListOrders
    \/ DemoValidate
    \/ DemoLeave
    \/ DemoExit
    \/ DemoRollback
    \/ DemoClose
    \/ DemoEnter

SpecDemo == Init /\ [][NextDemo]_vars

---------------------------------------------------------------------------
(* Properties *)

ScopeEnded == pc = "done"
Count(c) == Cardinality({k \in 1..Len(calls) : calls[k] = c})
Committed == Count("commit") > 0
CommitCalled == Count("commit") + Count("commit_failed") > 0
RolledBack == Count("rollback") > 0
\* what the session held is discarded: by rollback(), or by close() when no
\* commit was made
Discarded == RolledBack \/ (Count("close") > 0 /\ ~Committed)
CommitErrors == {"IntegrityError", "OperationalError"}

\* C1 as stated: a body that does not raise ends committed and not rolled
\* back; a body that raises ends rolled back, not committed by get_session,
\* and the caller gets that same exception.
C1_AsStated ==
    ScopeEnded =>
        /\ bodyExc = "none" => Committed /\ ~RolledBack
        /\ bodyExc # "none" => Discarded /\ ~CommitCalled /\ raised = bodyExc

\* C1 amended: when the body does not raise, get_session calls commit once;
\* if that commit succeeds the session is not rolled back and nothing is
\* raised, and if the commit itself raises, the session is rolled back and
\* the commit's error reaches the caller. When the body raises an Exception,
\* rollback is called, get_session calls no commit and the same exception is
\* re-raised. An exception that is not an Exception (KeyboardInterrupt)
\* reaches the caller with neither commit nor rollback called: the session
\* is only closed.
C1_ScopeOutcome ==
    ScopeEnded =>
        /\ bodyExc = "none" =>
              /\ Count("commit") + Count("commit_failed") = 1
              /\ Committed => ~RolledBack /\ raised = "none"
              /\ ~Committed => RolledBack /\ raised \in CommitErrors
        /\ IsException(bodyExc) =>
              RolledBack /\ ~CommitCalled /\ raised = bodyExc
        /\ bodyExc # "none" /\ ~IsException(bodyExc) =>
              ~RolledBack /\ ~CommitCalled /\ raised = bodyExc

C1_Witness ==
    /\ ScopeEnded /\ bodyExc = "none"
    /\ calls = <<"commit_failed", "rollback", "close">>
    /\ raised = "IntegrityError"

\* C2: a session handed out is closed exactly once, as the last call of the
\* scope: after the commit when the body and the commit succeed, after the
\* rollback when the body raises an Exception, and after commit then rollback
\* when the commit raises (the error reaching the caller).
C2_ClosedOnce ==
    /\ Count("close") = (IF ScopeEnded THEN 1 ELSE 0)
    /\ ScopeEnded =>
          /\ calls[Len(calls)] = "close"
          /\ bodyExc = "none" =>
                \/ calls = <<"commit", "close">> /\ raised = "none"
                \/ /\ Len(calls) = 3
                   /\ calls[1] = "commit_failed"
                   /\ calls[2] = "rollback"
                   /\ raised # "none"
          /\ IsException(bodyExc) =>
                /\ Len(calls) = 2
                /\ calls[1] = "rollback"
                /\ raised # "none"

C2_Witness ==
    /\ ScopeEnded /\ bodyExc = "none"
    /\ calls = <<"commit_failed", "rollback", "close">>
    /\ raised = "OperationalError"
    /\ db = dbAtEnter

\* C3 as stated, for the demo's first scope: when the scope ends with an
\* exception, no row written inside it is stored.
C3_ScopeAtomic ==
    (ScopeEnded /\ demo.scope = 1 /\ raised # "none") => db = dbAtEnter

\* C4: no two stored Suppliers have the same name; inserting a Supplier
\* under a name already stored fails with an integrity error and leaves the
\* stored rows as they were.
SupplierNamesUnique(st) ==
    \A a \in st.supplier, b \in st.supplier : a.name = b.name => a = b

\* a step that commits the pending operations
CommitStep == pc \in {"body", "commit"} /\ pending # <<>> /\ pending' = <<>>

\* the k-th pending operation adds a Supplier under a name that is stored
\* when the flush reaches it
DuplicateAt(k) ==
    LET before == Flush(tx, SubSeq(pending, 1, k - 1), 1)
    IN  /\ pending[k].kind = "add_supplier"
        /\ before.ok
        /\ ~SupplierNameFree(before.st, pending[k].name, None)

C4_UniqueNames ==
    /\ [](SupplierNamesUnique(db) /\ SupplierNamesUnique(tx))
    /\ [](\A r \in db.supplier : ~InsertSupplier(db, r.name).ok)
    /\ [][\A k \in 1..Len(pending) :
             (CommitStep /\ DuplicateAt(k))
                => /\ db' = db
                   /\ exc' \in CommitErrors
                   /\ exc' = "IntegrityError" => failedOp' = pending[k]]_vars
    /\ [][(failedOp = NoOp /\ failedOp'.kind = "add_supplier")
           => db' = db /\ exc' = "IntegrityError"]_vars

C4_Witness ==
    /\ ScopeEnded
    /\ failedOp.kind = "add_supplier"
    /\ raised = "IntegrityError"
    /\ \E r \in db.supplier : r.name = failedOp.name
    /\ db = dbAtEnter

\* C5 as stated: a Supplier delete always succeeds and removes the Supplier
\* with its Products, and an Order delete removes the Order with its items.
C5_AsStated ==
    /\ failedOp.kind \notin {"delete_supplier", "delete_order"}
    /\ \A k \in 1..Len(flushed) :
          /\ flushed[k].kind = "delete_supplier" =>
                /\ flushed[k].id \notin Ids(db, "supplier")
                /\ ProductsOf(db, flushed[k].id) = {}
          /\ flushed[k].kind = "delete_order" =>
                /\ flushed[k].id \notin Ids(db, "order")
                /\ ItemsOfOrder(db, flushed[k].id) = {}

\* C5 amended: deleting an Order removes the Order and all its OrderItems.
\* Deleting a Supplier none of whose Products is referenced by an OrderItem
\* removes the Supplier and all its Products; when an OrderItem references
\* one of its Products the delete fails with an integrity error and removes
\* nothing.
C5_CascadeDelete ==
    /\ \A k \in 1..Len(flushed) :
          /\ flushed[k].kind = "delete_supplier" =>
                LET id == flushed[k].id
                    gone == ProductsOf(dbAtEnter, id)
                IN  /\ db.supplier = {r \in dbAtEnter.supplier : r.id # id}
                    /\ db.product = dbAtEnter.product \ gone
                    /\ \A p \in gone : ItemsOfProduct(dbAtEnter, p.id) = {}
                    /\ db.order = dbAtEnter.order
                    /\ db.orderitem = dbAtEnter.orderitem
          /\ flushed[k].kind = "delete_order" =>
                LET id == flushed[k].id
                IN  /\ db.order = {r \in dbAtEnter.order : r.id # id}
                    /\ db.orderitem = dbAtEnter.orderitem \ ItemsOfOrder(dbAtEnter, id)
                    /\ db.supplier = dbAtEnter.supplier
                    /\ db.product = dbAtEnter.product
    /\ failedOp.kind = "delete_supplier" =>
          /\ db = dbAtEnter
          /\ raised = "IntegrityError"
          /\ failedOp.id \in Ids(db, "supplier")
          /\ \E p \in ProductsOf(db, failedOp.id) : ItemsOfProduct(db, p.id) # {}
    /\ failedOp.kind # "delete_order"

C5_Witness ==
    /\ ScopeEnded /\ raised = "none"
    /\ Len(flushed) = 1 /\ flushed[1].kind = "delete_supplier"
    /\ ProductsOf(dbAtEnter, flushed[1].id) # {}
    /\ ProductsOf(db, flushed[1].id) = {}
    /\ flushed[1].id \notin Ids(db, "supplier")

\* C6: a Product referenced by an OrderItem cannot be deleted: the delete
\* fails and Product and OrderItem stay stored unchanged; a Product delete
\* that succeeds had no referencing OrderItem, and an OrderItem leaves the
\* store only by its own delete or the delete of its Order.
C6_NoCascadeToItems ==
    /\ \A p \in db.product :
          ItemsOfProduct(db, p.id) # {} => ~RemoveProduct(db, p.id).ok
    /\ failedOp.kind = "delete_product" =>
          /\ db = dbAtEnter
          /\ raised = "IntegrityError"
          /\ failedOp.id \in Ids(db, "product")
          /\ ItemsOfProduct(db, failedOp.id) # {}
    /\ \A k \in 1..Len(flushed) :
          flushed[k].kind = "delete_product" =>
              /\ ItemsOfProduct(dbAtEnter, flushed[k].id) = {}
              /\ db.orderitem = dbAtEnter.orderitem
    /\ \A i \in dbAtEnter.orderitem :
          i \notin db.orderitem =>
              \E k \in 1..Len(flushed) :
                  \/ flushed[k] = DeleteOrderItem(i.id)
                  \/ flushed[k] = DeleteOrder(i.order_id)

C6_Witness ==
    /\ ScopeEnded
    /\ failedOp.kind = "delete_product"
    /\ raised = "IntegrityError"
    /\ \E i \in db.orderitem : i.product_id = failedOp.id /\ i \in dbAtEnter.orderitem

\* C7: in the committed store every Product names a stored Supplier and
\* every OrderItem names a stored Order and a stored Product.
C7_ReferentialIntegrity ==
    /\ \A p \in db.product : p.supplier_id \in Ids(db, "supplier")
    /\ \A i \in db.orderitem :
          i.order_id \in Ids(db, "order") /\ i.product_id \in Ids(db, "product")

C7_Witness ==
    /\ ScopeEnded
    /\ failedOp.kind \in {"add_product", "move_product", "delete_supplier"}
    /\ raised = "IntegrityError"
    /\ db.orderitem # {}

\* C8 as stated: every stored Order's total_amount is the sum of
\* price * quantity taken once per OrderItem of that Order.
C8_TotalIsSumOfItems ==
    \A o \in db.order :
        o.total_amount = CalculateTotal(ById(ItemsOfOrder(db, o.id)))

\* C9 as stated: the record projected from an Order with N OrderItems has N
\* item records, each with total = price * quantity and with the name of
\* the referenced Product.
C9_ProjectionComplete ==
    \A k \in 1..Len(demo.odt) :
        LET rows == ById(ItemsOfOrder(db, demo.odt[k].order))
            rec == demo.odt[k].record
        IN  /\ Len(rec.items) = Len(rows)
            /\ \A j \in 1..Len(rows) :
                  /\ rec.items[j].total = <<rows[j].price * rows[j].quantity>>
                  /\ rec.items[j].product_name =
                        <<(CHOOSE p \in db.product : p.id = rows[j].product_id).name>>

\* C10: after k >= 1 complete runs of the demo there is exactly one sample
\* Supplier, exactly one Product per sample product name, each referencing
\* that Supplier, every Order has exactly two OrderItems, and there is one
\* Order per complete run (plus one per run that stopped on an error after
\* it had stored its Order, which is no complete run).
C10_DemoIdempotent ==
    (demo.pc = "start" /\ demo.completed >= 1) =>
        /\ Cardinality({r \in db.supplier : r.name = DemoSupplierName}) = 1
        /\ \A n \in {DemoProduct1Name, DemoProduct2Name} :
              /\ Cardinality({r \in db.product : r.name = n}) = 1
              /\ \A r \in db.product : r.name = n =>
                    \E t \in db.supplier :
                        t.name = DemoSupplierName /\ r.supplier_id = t.id
        /\ Cardinality(db.order) = demo.completed + demo.lateAborted
        /\ \A o \in db.order :
              /\ o.customer_name = DemoCustomer
              /\ Cardinality(ItemsOfOrder(db, o.id)) = 2

C10_Witness ==
    /\ demo.pc = "start"
    /\ demo.completed = 2
    /\ demo.lateAborted = 0
    /\ Cardinality(db.order) = 2
    /\ Cardinality(db.supplier) = 1
    /\ Cardinality(db.product) = 2
    /\ Cardinality(db.orderitem) = 4

====
